---- MODULE Spec2Model ----
(***************************************************************************)
(* Model of the document and slide mutation operations of drive-mcp:       *)
(* DriveService.UpdateDocumentContent, DriveService.GetDocumentContent and *)
(* DriveService.UpdatePresentationSlide, together with the remote Docs and *)
(* Slides services they read from and submit batches to.                   *)
(***************************************************************************)
EXTENDS Integers, Sequences, FiniteSets, TLC

\* ------------------------------------------------------------------ bounds
MaxDocLen == 3    \* longest initial document body, in index units
MaxTextLen == 2   \* longest replacement text, in index units
MaxSlides == 2    \* most slides in the remote presentation
MaxElems == 3     \* most page elements on one slide

\* ------------------------------------------------------------- vocabulary
NL == "\n"        \* newline text unit; ends a paragraph
TBL == "#"        \* one index unit of a non-paragraph element (table)

TextChars == {"a", "b", NL}
DocUnits == {"a", NL, TBL}

SeqsUpTo(S, n) == UNION {[1..k -> S] : k \in 0..n}

Texts == SeqsUpTo(TextChars, MaxTextLen)

\* Remote documents: every body ends in its reserved trailing newline; the
\* empty body stands for a read that reports no structural element at all.
Bodies == {b \o <<NL>> : b \in SeqsUpTo(DocUnits, MaxDocLen - 1)} \cup {<<>>}

DocProcs == {1, 2}
DocIds == {"", "doc1"}

Max2(a, b) == IF a >= b THEN a ELSE b

IdIsEmptyNever(id) == FALSE

\* documentID == "" and presentationID == ""
IdIsEmpty(id) == id = ""

\* ------------------------------------------------- remote Docs service
\* Index of the last unit of the paragraph that starts at i: the first
\* newline at or after i, or the unit before the next table or the end.
RECURSIVE ParagraphLast(_, _)
ParagraphLast(b, i) ==
    IF b[i] = NL \/ i = Len(b) \/ b[i + 1] = TBL
    THEN i
    ELSE ParagraphLast(b, i + 1)

\* The structural elements the remote read reports for body b from index i
\* on: half-open ranges [StartIndex, EndIndex) over one global index space
\* that starts at 1; a paragraph carries its text run, a table carries none.
RECURSIVE ElementsFrom(_, _)
ElementsFrom(b, i) ==
    IF i > Len(b) THEN <<>>
    ELSE IF b[i] = TBL
    THEN <<[Paragraph |-> FALSE, StartIndex |-> i, EndIndex |-> i + 1,
            Elements |-> <<>>]>> \o ElementsFrom(b, i + 1)
    ELSE LET j == ParagraphLast(b, i)
         IN <<[Paragraph |-> TRUE, StartIndex |-> i, EndIndex |-> j + 1,
               Elements |-> <<[TextRun |-> TRUE, Content |-> SubSeq(b, i, j)]>>]>>
            \o ElementsFrom(b, j + 1)

\* doc.Body.Content as returned by Documents.Get
BodyContent(b) == ElementsFrom(b, 1)

\* A delete-range is accepted when it is a range of the body that leaves the
\* final unit alone; start = end is an accepted no-op.
ValidDelete(b, r) ==
    /\ 1 <= r.StartIndex
    /\ r.StartIndex <= r.EndIndex
    /\ r.EndIndex <= Len(b)

ApplyDelete(b, r) ==
    SubSeq(b, 1, r.StartIndex - 1) \o SubSeq(b, r.EndIndex, Len(b))

ValidInsert(b, r) == 1 <= r.Index /\ r.Index <= Len(b)

ApplyInsert(b, r) ==
    SubSeq(b, 1, r.Index - 1) \o r.Text \o SubSeq(b, r.Index, Len(b))

\* Requests are applied strictly in array order, each on the result of the
\* one before; the first invalid request rejects the batch.
RECURSIVE ApplyRequests(_, _, _)
ApplyRequests(b, reqs, i) ==
    IF i > Len(reqs) THEN [ok |-> TRUE, body |-> b]
    ELSE LET r == reqs[i]
         IN IF r.kind = "DeleteContentRange"
            THEN IF ValidDelete(b, r)
                 THEN ApplyRequests(ApplyDelete(b, r), reqs, i + 1)
                 ELSE [ok |-> FALSE, body |-> b]
            ELSE IF ValidInsert(b, r)
                 THEN ApplyRequests(ApplyInsert(b, r), reqs, i + 1)
                 ELSE [ok |-> FALSE, body |-> b]

\* Documents.BatchUpdate: all or nothing.
BatchUpdate(b, reqs) ==
    LET res == ApplyRequests(b, reqs, 1)
    IN IF res.ok THEN res ELSE [ok |-> FALSE, body |-> b]

\* ------------------------------------------------ GetDocumentContent
RECURSIVE ParagraphText(_, _)
ParagraphText(elems, i) ==
    IF i > Len(elems) THEN <<>>
    ELSE (IF elems[i].TextRun THEN elems[i].Content ELSE <<>>)
         \o ParagraphText(elems, i + 1)

RECURSIVE ContentFrom(_, _)
ContentFrom(content, i) ==
    IF i > Len(content) THEN <<>>
    ELSE (IF content[i].Paragraph THEN ParagraphText(content[i].Elements, 1)
          ELSE <<>>)
         \o ContentFrom(content, i + 1)

\* the text GetDocumentContent returns for the structure it read
GetDocumentContent(content) == ContentFrom(content, 1)

\* --------------------------------------------- UpdateDocumentContent
\* the loop over doc.Body.Content with the accumulator endIndex
RECURSIVE EndIndexLoop(_, _, _)
EndIndexLoop(content, i, endIndex) ==
    IF i > Len(content) THEN endIndex
    ELSE EndIndexLoop(content, i + 1,
                      IF content[i].EndIndex > endIndex
                      THEN content[i].EndIndex ELSE endIndex)

EndIndexCount(content) == Len(content)

EndIndexOf(content) == EndIndexLoop(content, 1, 1)

DeleteContentRange(s, e) ==
    [kind |-> "DeleteContentRange", StartIndex |-> s, EndIndex |-> e]

InsertText(i, text) == [kind |-> "InsertText", Index |-> i, Text |-> text]

DocRequestsKeepNewline2(content, text) ==
    <<DeleteContentRange(1, EndIndexOf(content) - 2), InsertText(1, text)>>

DocRequestsWholeRange(content, text) ==
    <<DeleteContentRange(1, EndIndexOf(content)), InsertText(1, text)>>

\* requests := []*docs.Request{ delete [1, endIndex-1), insert at 1 }
DocRequests(content, text) ==
    <<DeleteContentRange(1, EndIndexOf(content) - 1), InsertText(1, text)>>

\* ------------------------------------------------ remote Slides service
NoId == <<>>      \* the empty object id ""

Kinds == {"image", "shape", "emptyText", "text"}

\* One page element: Shape is element.Shape != nil; Text is the state of
\* element.Shape.Text: "nil", "empty" (a text body with no text element) or
\* "runs" (a text body with text runs). Object ids are never empty.
PageElement(k, j, kind) ==
    [ObjectId |-> <<k, j>>,
     Shape |-> kind # "image",
     Text |-> CASE kind = "text" -> "runs"
                [] kind = "emptyText" -> "empty"
                [] OTHER -> "nil"]

Layouts == SeqsUpTo(Kinds, MaxElems)

SlideOf(k, layout) ==
    [PageElements |-> [j \in 1..Len(layout) |-> PageElement(k, j, layout[j])]]

\* presentation.Slides as returned by Presentations.Get: n slides that share
\* one layout, each page element with its own object id.
Presentations ==
    {[k \in 1..n |-> SlideOf(k, layout)] : n \in 0..MaxSlides, layout \in Layouts}

PresentationIds == {"", "pres1"}
SlideIndexes == (-1)..MaxSlides
Titles == {"", "New"}
Contents == {"", "Body"}

\* ------------------------------------------- UpdatePresentationSlide
DeleteText(id) == [kind |-> "DeleteText", ObjectId |-> id, Type |-> "ALL"]

SlideInsertText(id, text) ==
    [kind |-> "InsertText", ObjectId |-> id, Text |-> text, InsertionIndex |-> 0]

\* first loop: a delete-all-text request per element with a text body
RECURSIVE ClearRequests(_, _)
ClearRequests(elems, i) ==
    IF i > Len(elems) THEN <<>>
    ELSE (IF elems[i].Shape /\ elems[i].Text # "nil"
          THEN <<DeleteText(elems[i].ObjectId)>> ELSE <<>>)
         \o ClearRequests(elems, i + 1)

\* second loop: titleObjectId and contentObjectId, with the break
RECURSIVE RegionLoop(_, _, _, _)
RegionLoop(elems, i, titleObjectId, contentObjectId) ==
    IF i > Len(elems)
    THEN [titleObjectId |-> titleObjectId, contentObjectId |-> contentObjectId]
    ELSE IF elems[i].Shape
         THEN IF titleObjectId = NoId
              THEN RegionLoop(elems, i + 1, elems[i].ObjectId, contentObjectId)
              ELSE IF contentObjectId = NoId
                   THEN [titleObjectId |-> titleObjectId,
                         contentObjectId |-> elems[i].ObjectId]
                   ELSE RegionLoop(elems, i + 1, titleObjectId, contentObjectId)
         ELSE RegionLoop(elems, i + 1, titleObjectId, contentObjectId)

Regions(elems) == RegionLoop(elems, 1, NoId, NoId)

InsertRequestsAlways(regions, title, content) ==
    (IF regions.titleObjectId # NoId
     THEN <<SlideInsertText(regions.titleObjectId, title)>> ELSE <<>>)
    \o (IF regions.contentObjectId # NoId
        THEN <<SlideInsertText(regions.contentObjectId, content)>> ELSE <<>>)

\* the two guarded appends of an insert-text request
InsertRequests(regions, title, content) ==
    (IF regions.titleObjectId # NoId /\ title # ""
     THEN <<SlideInsertText(regions.titleObjectId, title)>> ELSE <<>>)
    \o (IF regions.contentObjectId # NoId /\ content # ""
        THEN <<SlideInsertText(regions.contentObjectId, content)>> ELSE <<>>)

SlideRequestsInsertsFirst(slide, title, content) ==
    InsertRequests(Regions(slide.PageElements), title, content)
    \o ClearRequests(slide.PageElements, 1)

\* the request list UpdatePresentationSlide builds for one slide
SlideRequests(slide, title, content) ==
    ClearRequests(slide.PageElements, 1)
    \o InsertRequests(Regions(slide.PageElements), title, content)

ShouldSubmitAlways(requests) == TRUE

\* if len(requests) > 0
ShouldSubmit(requests) == Len(requests) > 0

OutOfRangeAboveCount(slideIndex, presentation) ==
    slideIndex < 0 \/ slideIndex > Len(presentation)

\* slideIndex < 0 || slideIndex >= len(presentation.Slides)
OutOfRange(slideIndex, presentation) ==
    slideIndex < 0 \/ slideIndex >= Len(presentation)

\* ------------------------------------------------------------------ state
VARIABLES
    tool,       \* the tool this run of the server is asked for
    body,       \* remote document: body[i] is the unit at index i
    version,    \* number of batches the remote document has committed
    commits,    \* the invocations whose batch committed, in commit order
    docCall,    \* per invocation of UpdateDocumentContent: its locals
    pres,       \* remote presentation: its slides
    presLog,    \* batches the remote presentation has committed, in order
    slideCall   \* the invocation of UpdatePresentationSlide: its locals

vars == <<tool, body, version, commits, docCall, pres, presLog, slideCall>>

docVars == <<body, version, commits, docCall>>
slideVars == <<pres, presLog, slideCall>>

Tools == {"update_document", "update_presentation"}

CtxNeverDone(call) == FALSE

\* .Context(ctx) on the four remote calls: a call whose context is done
\* returns the context's error without sending its request
CtxDone(call) == call.ctxDone

DocIdle ==
    [pc |-> "idle", documentID |-> "", content |-> <<>>, doc |-> <<>>,
     requests |-> <<>>, err |-> "", reads |-> 0, writes |-> 0,
     readVersion |-> 0, writeVersion |-> 0, submitted |-> <<>>, extracted |-> <<>>,
     ctxDone |-> FALSE, cancelledAt |-> "", before |-> <<>>, missing |-> "",
     after |-> <<>>, sawDone |-> {}]

SlideIdle ==
    [pc |-> "idle", presentationID |-> "", slideIndex |-> 0, title |-> "",
     content |-> "", presentation |-> <<>>, titleObjectId |-> NoId,
     contentObjectId |-> NoId, requests |-> <<>>, err |-> "",
     reads |-> 0, writes |-> 0, submitted |-> <<>>,
     ctxDone |-> FALSE, cancelledAt |-> "", missing |-> ""]

Init ==
    /\ tool \in Tools
    /\ body \in (IF tool = "update_document" THEN Bodies ELSE {<<NL>>})
    /\ version = 0
    /\ commits = <<>>
    /\ docCall = [p \in DocProcs |-> DocIdle]
    /\ pres \in (IF tool = "update_presentation" THEN Presentations ELSE {<<>>})
    /\ presLog = <<>>
    /\ slideCall = SlideIdle

\* -------------------------------------- UpdateDocumentContent, stepwise
\* entry and the documentID == "" check
DocCall(p) ==
    /\ tool = "update_document"
    /\ docCall[p].pc = "idle"
    /\ \E id \in DocIds, text \in Texts :
         docCall' = [docCall EXCEPT ![p] =
            IF IdIsEmpty(id)
            THEN [@ EXCEPT !.pc = "done", !.documentID = id, !.content = text,
                           !.err = "document ID is empty"]
            ELSE [@ EXCEPT !.pc = "get", !.documentID = id, !.content = text]]
    /\ UNCHANGED <<tool, body, version, commits, slideVars>>

\* the update_document handler: a required parameter is missing, the
\* service is not called
DocCallMissing(p) ==
    /\ tool = "update_document"
    /\ docCall[p].pc = "idle"
    /\ \E name \in {"documentId", "content"} :
         docCall' = [docCall EXCEPT ![p] =
            [@ EXCEPT !.pc = "done", !.missing = name]]
    /\ UNCHANGED <<tool, body, version, commits, slideVars>>

\* Documents.Get returns a document without a body: doc.Body is nil and
\* doc.Body.Content is a nil dereference, a run-time panic
DocGetMalformed(p) ==
    /\ docCall[p].pc = "get"
    /\ ~CtxDone(docCall[p])
    /\ docCall' = [docCall EXCEPT ![p] =
            [@ EXCEPT !.pc = "panic", !.reads = @ + 1]]
    /\ UNCHANGED <<tool, body, version, commits, slideVars>>

\* what createUpdateDocumentHandler returns for a finished call
DocHandlerResult(call) ==
    IF call.missing # ""
    THEN [isError |-> TRUE, goErr |-> "nil",
          text |-> <<"Parameter is required", call.missing>>]
    ELSE IF call.err # ""
    THEN [isError |-> TRUE, goErr |-> "nil",
          text |-> <<"Failed to update document: ", call.err>>]
    ELSE [isError |-> FALSE, goErr |-> "nil",
          text |-> <<"Document updated successfully">>]

\* Documents.Get succeeds; endIndex and the two requests are computed
DocGet(p) ==
    /\ docCall[p].pc = "get"
    /\ ~CtxDone(docCall[p])
    /\ LET doc == BodyContent(body)
       IN docCall' = [docCall EXCEPT ![p] =
            [@ EXCEPT !.pc = "batchUpdate", !.reads = @ + 1, !.doc = doc,
                      !.readVersion = version,
                      !.sawDone = {q \in DocProcs : docCall[q].pc = "done"},
                      !.requests = DocRequests(doc, docCall[p].content)]]
    /\ UNCHANGED <<tool, body, version, commits, slideVars>>

\* Documents.Get fails
DocGetFail(p) ==
    /\ docCall[p].pc = "get"
    /\ ~CtxDone(docCall[p])
    /\ docCall' = [docCall EXCEPT ![p] =
            [@ EXCEPT !.pc = "done", !.reads = @ + 1,
                      !.err = "failed to get document"]]
    /\ UNCHANGED <<tool, body, version, commits, slideVars>>

\* Documents.BatchUpdate is issued: the remote commits the batch, or
\* rejects it whole
DocBatchUpdate(p) ==
    /\ docCall[p].pc = "batchUpdate"
    /\ ~CtxDone(docCall[p])
    /\ LET res == BatchUpdate(body, docCall[p].requests)
       IN /\ body' = res.body
          /\ version' = IF res.ok THEN version + 1 ELSE version
          /\ commits' = IF res.ok THEN Append(commits, p) ELSE commits
          /\ docCall' = [docCall EXCEPT ![p] =
               [@ EXCEPT !.pc = "done", !.writes = @ + 1,
                         !.writeVersion = version, !.after = res.body,
                         !.submitted = Append(@, docCall[p].requests),
                         !.extracted = IF res.ok
                                       THEN GetDocumentContent(BodyContent(res.body))
                                       ELSE @,
                         !.err = IF res.ok THEN ""
                                 ELSE "failed to update document: invalid requests"]]
    /\ UNCHANGED <<tool, slideVars>>

DocBatchUpdateFailRetry(p) ==
    /\ docCall[p].pc = "batchUpdate"
    /\ ~CtxDone(docCall[p])
    /\ docCall[p].writes < 2
    /\ docCall' = [docCall EXCEPT ![p] =
            [@ EXCEPT !.writes = @ + 1, !.writeVersion = version,
                      !.submitted = Append(@, docCall[p].requests),
                      !.err = "failed to update document: unavailable"]]
    /\ UNCHANGED <<tool, body, version, commits, slideVars>>

\* Documents.BatchUpdate is issued and fails before the remote applies it
DocBatchUpdateFail(p) ==
    /\ docCall[p].pc = "batchUpdate"
    /\ ~CtxDone(docCall[p])
    /\ docCall' = [docCall EXCEPT ![p] =
            [@ EXCEPT !.pc = "done", !.writes = @ + 1,
                      !.writeVersion = version,
                      !.submitted = Append(@, docCall[p].requests),
                      !.err = "failed to update document: unavailable"]]
    /\ UNCHANGED <<tool, body, version, commits, slideVars>>

\* ------------------------------------ UpdatePresentationSlide, stepwise
\* entry and the presentationID == "" check
SlideCall ==
    /\ tool = "update_presentation"
    /\ slideCall.pc = "idle"
    /\ \E id \in PresentationIds, idx \in SlideIndexes,
          title \in Titles, content \in Contents :
         slideCall' =
            IF IdIsEmpty(id)
            THEN [slideCall EXCEPT !.pc = "done", !.presentationID = id,
                    !.slideIndex = idx, !.title = title, !.content = content,
                    !.err = "presentation ID is empty"]
            ELSE [slideCall EXCEPT !.pc = "get", !.presentationID = id,
                    !.slideIndex = idx, !.title = title, !.content = content]
    /\ UNCHANGED <<tool, docVars, pres, presLog>>

\* the update_presentation handler: a required parameter is missing, the
\* service is not called
SlideCallMissing ==
    /\ tool = "update_presentation"
    /\ slideCall.pc = "idle"
    /\ \E name \in {"presentationId", "title", "content"} :
         slideCall' = [slideCall EXCEPT !.pc = "done", !.missing = name]
    /\ UNCHANGED <<tool, docVars, pres, presLog>>

\* what createUpdatePresentationHandler returns for a finished call
SlideHandlerResult(call) ==
    IF call.missing # ""
    THEN [isError |-> TRUE, goErr |-> "nil",
          text |-> <<"Parameter is required", call.missing>>]
    ELSE IF call.err # ""
    THEN [isError |-> TRUE, goErr |-> "nil",
          text |-> <<"Failed to update presentation: ", call.err>>]
    ELSE [isError |-> FALSE, goErr |-> "nil",
          text |-> <<"Presentation slide updated successfully">>]

\* Presentations.Get succeeds; the index is checked and the requests built;
\* an empty request list ends the call without a batch. Indexing
\* presentation.Slides outside its bounds is a run-time panic.
SlideGet ==
    /\ slideCall.pc = "get"
    /\ ~CtxDone(slideCall)
    /\ slideCall' =
         IF OutOfRange(slideCall.slideIndex, pres)
         THEN [slideCall EXCEPT !.pc = "done", !.reads = @ + 1,
                 !.presentation = pres, !.err = "slide index out of range"]
         ELSE IF slideCall.slideIndex + 1 \notin DOMAIN pres
         THEN [slideCall EXCEPT !.pc = "panic", !.reads = @ + 1,
                 !.presentation = pres]
         ELSE LET slide == pres[slideCall.slideIndex + 1]
                  regions == Regions(slide.PageElements)
                  requests == SlideRequests(slide, slideCall.title,
                                            slideCall.content)
              IN [slideCall EXCEPT
                    !.pc = IF ShouldSubmit(requests) THEN "batchUpdate" ELSE "done",
                    !.reads = @ + 1, !.presentation = pres,
                    !.titleObjectId = regions.titleObjectId,
                    !.contentObjectId = regions.contentObjectId,
                    !.requests = requests]
    /\ UNCHANGED <<tool, docVars, pres, presLog>>

\* Presentations.Get fails
SlideGetFail ==
    /\ slideCall.pc = "get"
    /\ ~CtxDone(slideCall)
    /\ slideCall' = [slideCall EXCEPT !.pc = "done", !.reads = @ + 1,
                       !.err = "failed to get presentation"]
    /\ UNCHANGED <<tool, docVars, pres, presLog>>

\* Presentations.BatchUpdate is issued and committed
SlideBatchUpdate ==
    /\ slideCall.pc = "batchUpdate"
    /\ ~CtxDone(slideCall)
    /\ presLog' = Append(presLog, slideCall.requests)
    /\ slideCall' = [slideCall EXCEPT !.pc = "done", !.writes = @ + 1,
                       !.submitted = Append(@, slideCall.requests)]
    /\ UNCHANGED <<tool, docVars, pres>>

\* Presentations.BatchUpdate is issued and fails
SlideBatchUpdateFail ==
    /\ slideCall.pc = "batchUpdate"
    /\ ~CtxDone(slideCall)
    /\ slideCall' = [slideCall EXCEPT !.pc = "done", !.writes = @ + 1,
                       !.submitted = Append(@, slideCall.requests),
                       !.err = "failed to update presentation"]
    /\ UNCHANGED <<tool, docVars, pres, presLog>>

Next ==
    \/ \E p \in DocProcs : DocCall(p)
    \/ \E p \in DocProcs : DocCallMissing(p)
    \/ \E p \in DocProcs : DocGetMalformed(p)
    \/ SlideCallMissing
    \/ \E p \in DocProcs : DocGet(p)
    \/ \E p \in DocProcs : DocGetFail(p)
    \/ \E p \in DocProcs : DocBatchUpdate(p)
    \/ \E p \in DocProcs : DocBatchUpdateFail(p)
    \/ SlideCall
    \/ SlideGet
    \/ SlideGetFail
    \/ SlideBatchUpdate
    \/ SlideBatchUpdateFail

Spec == Init /\ [][Next]_vars

\* ------------------------------------------- cancellation of the context
\* the caller cancels ctx while the invocation is between its remote calls
DocCancel(p) ==
    /\ docCall[p].pc \in {"get", "batchUpdate"}
    /\ ~docCall[p].ctxDone
    /\ docCall' = [docCall EXCEPT ![p] =
            [@ EXCEPT !.ctxDone = TRUE, !.cancelledAt = docCall[p].pc]]
    /\ UNCHANGED <<tool, body, version, commits, slideVars>>

\* Documents.Get with a context that is already done: nothing is sent
DocGetCancelled(p) ==
    /\ docCall[p].pc = "get"
    /\ CtxDone(docCall[p])
    /\ docCall' = [docCall EXCEPT ![p] =
            [@ EXCEPT !.pc = "done",
                      !.err = "failed to get document: context canceled"]]
    /\ UNCHANGED <<tool, body, version, commits, slideVars>>

\* ctx is cancelled while Documents.Get is in flight
DocGetInterrupted(p) ==
    /\ docCall[p].pc = "get"
    /\ ~CtxDone(docCall[p])
    /\ docCall' = [docCall EXCEPT ![p] =
            [@ EXCEPT !.pc = "done", !.reads = @ + 1, !.ctxDone = TRUE,
                      !.cancelledAt = "during get",
                      !.err = "failed to get document: context canceled"]]
    /\ UNCHANGED <<tool, body, version, commits, slideVars>>

\* Documents.BatchUpdate with a context that is already done: nothing is sent
DocBatchUpdateCancelled(p) ==
    /\ docCall[p].pc = "batchUpdate"
    /\ CtxDone(docCall[p])
    /\ docCall' = [docCall EXCEPT ![p] =
            [@ EXCEPT !.pc = "done",
                      !.err = "failed to update document: context canceled"]]
    /\ UNCHANGED <<tool, body, version, commits, slideVars>>

\* ctx is cancelled while Documents.BatchUpdate is in flight: the remote has
\* the batch and commits it whole or not at all; the caller gets ctx's error
DocBatchUpdateInterrupted(p) ==
    /\ docCall[p].pc = "batchUpdate"
    /\ ~CtxDone(docCall[p])
    /\ \E reached \in BOOLEAN :
         LET res == IF reached THEN BatchUpdate(body, docCall[p].requests)
                    ELSE [ok |-> FALSE, body |-> body]
         IN /\ body' = res.body
            /\ version' = IF res.ok THEN version + 1 ELSE version
            /\ commits' = IF res.ok THEN Append(commits, p) ELSE commits
            /\ docCall' = [docCall EXCEPT ![p] =
                 [@ EXCEPT !.pc = "done", !.writes = @ + 1,
                           !.writeVersion = version, !.before = body,
                           !.submitted = Append(@, docCall[p].requests),
                           !.ctxDone = TRUE,
                           !.cancelledAt = "during batchUpdate",
                           !.err = "failed to update document: context canceled"]]
    /\ UNCHANGED <<tool, slideVars>>

SlideCancel ==
    /\ slideCall.pc \in {"get", "batchUpdate"}
    /\ ~slideCall.ctxDone
    /\ slideCall' = [slideCall EXCEPT !.ctxDone = TRUE,
                                      !.cancelledAt = slideCall.pc]
    /\ UNCHANGED <<tool, docVars, pres, presLog>>

\* Presentations.Get with a context that is already done
SlideGetCancelled ==
    /\ slideCall.pc = "get"
    /\ CtxDone(slideCall)
    /\ slideCall' = [slideCall EXCEPT !.pc = "done",
                       !.err = "failed to get presentation: context canceled"]
    /\ UNCHANGED <<tool, docVars, pres, presLog>>

\* ctx is cancelled while Presentations.Get is in flight
SlideGetInterrupted ==
    /\ slideCall.pc = "get"
    /\ ~CtxDone(slideCall)
    /\ slideCall' = [slideCall EXCEPT !.pc = "done", !.reads = @ + 1,
                       !.ctxDone = TRUE, !.cancelledAt = "during get",
                       !.err = "failed to get presentation: context canceled"]
    /\ UNCHANGED <<tool, docVars, pres, presLog>>

\* Presentations.BatchUpdate with a context that is already done
SlideBatchUpdateCancelled ==
    /\ slideCall.pc = "batchUpdate"
    /\ CtxDone(slideCall)
    /\ slideCall' = [slideCall EXCEPT !.pc = "done",
                       !.err = "failed to update presentation: context canceled"]
    /\ UNCHANGED <<tool, docVars, pres, presLog>>

\* ctx is cancelled while Presentations.BatchUpdate is in flight
SlideBatchUpdateInterrupted ==
    /\ slideCall.pc = "batchUpdate"
    /\ ~CtxDone(slideCall)
    /\ \E reached \in BOOLEAN :
         presLog' = IF reached THEN Append(presLog, slideCall.requests)
                    ELSE presLog
    /\ slideCall' = [slideCall EXCEPT !.pc = "done", !.writes = @ + 1,
                       !.submitted = Append(@, slideCall.requests),
                       !.ctxDone = TRUE, !.cancelledAt = "during batchUpdate",
                       !.err = "failed to update presentation: context canceled"]
    /\ UNCHANGED <<tool, docVars, pres>>

\* one invocation of each operation under a cancellable context
CancelProcs == {1}

NextCancel ==
    \/ \E p \in CancelProcs : DocCall(p)
    \/ \E p \in CancelProcs : DocGet(p)
    \/ \E p \in CancelProcs : DocGetFail(p)
    \/ \E p \in CancelProcs : DocBatchUpdate(p)
    \/ \E p \in CancelProcs : DocBatchUpdateFail(p)
    \/ \E p \in CancelProcs : DocCancel(p)
    \/ \E p \in CancelProcs : DocGetCancelled(p)
    \/ \E p \in CancelProcs : DocGetInterrupted(p)
    \/ \E p \in CancelProcs : DocBatchUpdateCancelled(p)
    \/ \E p \in CancelProcs : DocBatchUpdateInterrupted(p)
    \/ SlideCall
    \/ SlideGet
    \/ SlideGetFail
    \/ SlideBatchUpdate
    \/ SlideBatchUpdateFail
    \/ SlideCancel
    \/ SlideGetCancelled
    \/ SlideGetInterrupted
    \/ SlideBatchUpdateCancelled
    \/ SlideBatchUpdateInterrupted

SpecCancel == Init /\ [][NextCancel]_vars

\* ============================================================== claims
\* helpers of the claims, stated independently of the code's loops
Committed(p) == docCall[p].pc = "done" /\ docCall[p].writes = 1 /\ docCall[p].err = ""

\* the batch of p was applied to the very document p had read
AppliedToRead(p) == docCall[p].writes = 1 /\ docCall[p].readVersion = docCall[p].writeVersion

\* p read the document structure successfully
DocWasRead(p) == docCall[p].reads = 1 /\ docCall[p].err # "failed to get document"

\* the largest endIndex over all structural elements of a read with elements
MaxEndIndex(content) ==
    CHOOSE m \in {content[i].EndIndex : i \in 1..Len(content)} :
        \A i \in 1..Len(content) : content[i].EndIndex <= m

\* the indices a delete-range request covers
Covered(r) == {i \in 0..(r.EndIndex + 1) : r.StartIndex <= i /\ i < r.EndIndex}

\* the slide the invocation targets, once read with an index in range
SlideBuilt ==
    /\ slideCall.pc \in {"batchUpdate", "done"}
    /\ slideCall.reads = 1
    /\ slideCall.err \notin {"failed to get presentation", "slide index out of range"}

TargetElements == slideCall.presentation[slideCall.slideIndex + 1].PageElements

OwnsTextBody(e) == e.Shape /\ e.Text # "nil"
IsInsert(r) == r.kind = "InsertText"
IsDelete(r) == r.kind = "DeleteText"
HasNonEmptyText(e) == e.Shape /\ e.Text = "runs"

\* C1 (as stated): once the batch of UpdateDocumentContent has been applied
\* to the document that was read, GetDocumentContent yields exactly the new
\* text T.
C1_RoundTripExact ==
    \A p \in DocProcs :
        (Committed(p) /\ AppliedToRead(p)) =>
            docCall[p].extracted = docCall[p].content

\* C1 (amended): for every document that ends in its reserved trailing
\* newline, the batch applied to the document that was read is accepted and
\* GetDocumentContent then yields T followed by that trailing newline.
C1_RoundTripKeepsTrailingNewline ==
    \A p \in DocProcs :
        ( /\ docCall[p].pc = "done"
          /\ AppliedToRead(p)
          /\ docCall[p].doc # <<>>
          /\ docCall[p].err # "failed to update document: unavailable" ) =>
            /\ docCall[p].err = ""
            /\ docCall[p].extracted = docCall[p].content \o <<NL>>

C1_Witness ==
    \E p \in DocProcs :
        /\ Committed(p) /\ AppliedToRead(p)
        /\ Len(docCall[p].content) = MaxTextLen
        /\ Len(docCall[p].doc) >= 2
        /\ \E i \in 1..Len(docCall[p].doc) : ~docCall[p].doc[i].Paragraph
        /\ GetDocumentContent(docCall[p].doc) # docCall[p].content \o <<NL>>
        /\ docCall[p].extracted = docCall[p].content \o <<NL>>

\* C2: for a document whose elements have maximum endIndex E, exactly one
\* batch is submitted and it is <<delete [1, E-1), insert T at 1>>, in this
\* order.
C2_OneBatchDeleteThenInsert ==
    \A p \in DocProcs :
        (docCall[p].pc = "done" /\ DocWasRead(p) /\ docCall[p].doc # <<>>) =>
            /\ docCall[p].writes = 1
            /\ docCall[p].submitted =
                 << <<DeleteContentRange(1, MaxEndIndex(docCall[p].doc) - 1),
                      InsertText(1, docCall[p].content)>> >>

C2_Witness ==
    \E p \in DocProcs :
        /\ docCall[p].pc = "done" /\ DocWasRead(p)
        /\ Len(docCall[p].doc) >= 2
        /\ MaxEndIndex(docCall[p].doc) = MaxDocLen + 1
        /\ MaxEndIndex(docCall[p].doc) # Len(docCall[p].doc)
        /\ docCall[p].content # <<>>
        /\ Len(docCall[p].submitted) = 1

\* C3: the delete range submitted is never invalid: its end is
\* max(1, endIndex - 1), so start <= end, also for a read with no elements.
C3_DeleteRangeClamped ==
    \A p \in DocProcs :
        Len(docCall[p].submitted) >= 1 =>
            LET r == docCall[p].submitted[1][1]
                E == IF docCall[p].doc = <<>> THEN 1
                     ELSE MaxEndIndex(docCall[p].doc)
            IN /\ r.StartIndex <= r.EndIndex
               /\ r.EndIndex = Max2(1, E - 1)

\* C4: every index the submitted delete range covers lies at or after 1 and
\* before the document's final index unit endIndex - 1.
C4_DeleteRangeSparesEnds ==
    \A p \in DocProcs :
        Len(docCall[p].submitted) >= 1 =>
            LET r == docCall[p].submitted[1][1]
                E == IF docCall[p].doc = <<>> THEN 1
                     ELSE MaxEndIndex(docCall[p].doc)
            IN /\ r.kind = "DeleteContentRange"
               /\ \A i \in Covered(r) : 1 <= i /\ i < E - 1

C4_Witness ==
    \E p \in DocProcs :
        /\ Len(docCall[p].submitted) >= 1
        /\ Cardinality(Covered(docCall[p].submitted[1][1])) >= 2
        /\ MaxEndIndex(docCall[p].doc) = MaxDocLen + 1

\* C5: on a slide with at least two text-bearing elements, the title insert
\* targets the first text-bearing element and the content insert the second.
C5_FirstTwoTextBearing ==
    (SlideBuilt /\ Len(SelectSeq(TargetElements, OwnsTextBody)) >= 2) =>
        LET tb == SelectSeq(TargetElements, OwnsTextBody)
        IN SelectSeq(slideCall.requests, IsInsert) =
             (IF slideCall.title # ""
              THEN <<SlideInsertText(tb[1].ObjectId, slideCall.title)>>
              ELSE <<>>)
             \o (IF slideCall.content # ""
                 THEN <<SlideInsertText(tb[2].ObjectId, slideCall.content)>>
                 ELSE <<>>)

\* C6: on a slide with no text-bearing element, non-empty title and content
\* build an empty request list.
C6_NoTextBearingNoRequests ==
    ( /\ SlideBuilt
      /\ SelectSeq(TargetElements, OwnsTextBody) = <<>>
      /\ slideCall.title # "" /\ slideCall.content # "" ) =>
        slideCall.requests = <<>>

C8_OutOfRangeNoBatch ==
    ( /\ slideCall.pc \notin {"idle", "get"}
      /\ slideCall.reads = 1
      /\ slideCall.err # "failed to get presentation"
      /\ ( slideCall.slideIndex < 0
           \/ slideCall.slideIndex >= Len(slideCall.presentation) ) ) =>
        /\ slideCall.pc = "done"
        /\ slideCall.err = "slide index out of range"
        /\ slideCall.writes = 0
        /\ slideCall.submitted = <<>>
        /\ presLog = <<>>

C8_Witness ==
    /\ slideCall.pc = "done"
    /\ slideCall.reads = 1
    /\ Len(slideCall.presentation) = MaxSlides
    /\ slideCall.slideIndex = Len(slideCall.presentation)
    /\ slideCall.err = "slide index out of range"

\* C9: with an empty resource identifier both operations fail with the
\* invalid-argument error and issue no remote read and no remote batch write.
C9_EmptyIdNoRemoteCall ==
    /\ \A p \in DocProcs :
         ( /\ docCall[p].pc # "idle" /\ docCall[p].missing = ""
           /\ docCall[p].documentID = "" ) =>
            /\ docCall[p].pc = "done"
            /\ docCall[p].err = "document ID is empty"
            /\ docCall[p].reads = 0 /\ docCall[p].writes = 0
    /\ ( /\ slideCall.pc # "idle" /\ slideCall.missing = ""
         /\ slideCall.presentationID = "" ) =>
            /\ slideCall.pc = "done"
            /\ slideCall.err = "presentation ID is empty"
            /\ slideCall.reads = 0 /\ slideCall.writes = 0

C9_Witness ==
    \/ /\ docCall[1].pc = "done" /\ docCall[1].documentID = ""
       /\ docCall[2].pc = "done" /\ docCall[2].documentID # ""
       /\ docCall[1].missing = ""
       /\ docCall[2].writes = 1
    \/ /\ slideCall.pc = "done" /\ slideCall.presentationID = ""
       /\ slideCall.missing = ""
       /\ slideCall.title # ""

\* C10: when both concurrent invocations have committed their batch, the
\* document's extractable content is the content of the one that committed
\* last (up to the reserved trailing newline that every replacement keeps).
C10_LastCommitWins ==
    Len(commits) = 2 =>
        GetDocumentContent(BodyContent(body)) =
            docCall[commits[2]].content \o <<NL>>

\* C11: a context cancelled before the batch-write call means the batch write
\* is never issued; a context cancelled during the read or the write ends the
\* invocation with a cancellation failure, and the remote resource holds
\* either what it held before or the whole replacement, never a part of it.
Cancellations ==
    {"failed to get document: context canceled",
     "failed to update document: context canceled",
     "failed to get presentation: context canceled",
     "failed to update presentation: context canceled"}

C11_CancelledBeforeWriteNotIssued ==
    /\ \A p \in CancelProcs :
         LET c == docCall[p]
         IN /\ c.cancelledAt \in {"get", "batchUpdate"} =>
                 /\ c.writes = 0 /\ c.submitted = <<>> /\ version = 0
                 /\ c.pc = "done" => c.err \in Cancellations
            /\ c.cancelledAt = "get" => c.reads = 0
            /\ c.cancelledAt = "during get" =>
                 c.pc = "done" /\ c.err \in Cancellations /\ c.writes = 0
            /\ c.cancelledAt = "during batchUpdate" =>
                 /\ c.pc = "done" /\ c.err \in Cancellations
                 /\ \/ body = c.before
                    \/ GetDocumentContent(BodyContent(body)) = c.content \o <<NL>>
    /\ LET c == slideCall
       IN /\ c.cancelledAt \in {"get", "batchUpdate"} =>
               /\ c.writes = 0 /\ c.submitted = <<>> /\ presLog = <<>>
               /\ c.pc = "done" => c.err \in Cancellations
          /\ c.cancelledAt = "get" => c.reads = 0
          /\ c.cancelledAt = "during get" =>
               c.pc = "done" /\ c.err \in Cancellations /\ c.writes = 0
          /\ c.cancelledAt = "during batchUpdate" =>
               /\ c.pc = "done" /\ c.err \in Cancellations
               /\ presLog \in {<<>>, <<c.requests>>}

C11_Witness ==
    \/ /\ docCall[1].pc = "done"
       /\ docCall[1].cancelledAt = "batchUpdate"
       /\ docCall[1].reads = 1
       /\ Len(docCall[1].doc) >= 2
       /\ docCall[1].content # <<>>
    \/ /\ slideCall.pc = "done"
       /\ slideCall.cancelledAt = "during batchUpdate"
       /\ presLog # <<>>

\* C12: the update_document and update_presentation handlers never end in
\* an unhandled fault: whatever the request and whatever the remote calls
\* return, a finished call yields the success text or an error result that
\* embeds the cause, with a nil Go error.
C12_HandlersNeverFault ==
    /\ \A p \in DocProcs :
         /\ docCall[p].pc # "panic"
         /\ docCall[p].pc = "done" =>
              LET r == DocHandlerResult(docCall[p])
              IN /\ r.goErr = "nil"
                 /\ r.isError <=> (docCall[p].missing # "" \/ docCall[p].err # "")
                 /\ docCall[p].err # "" => r.text[Len(r.text)] = docCall[p].err
    /\ slideCall.pc # "panic"
    /\ slideCall.pc = "done" =>
         LET r == SlideHandlerResult(slideCall)
         IN /\ r.goErr = "nil"
            /\ r.isError <=> (slideCall.missing # "" \/ slideCall.err # "")
            /\ slideCall.err # "" => r.text[Len(r.text)] = slideCall.err

\* C13: in every batch built by UpdatePresentationSlide all delete-all-text
\* requests come first, in page-element order, then the title insert (if
\* any), then the content insert (if any); no delete follows an insert.
C13_ClearsBeforeInserts ==
    SlideBuilt =>
        LET reqs == slideCall.requests
            dels == SelectSeq(reqs, IsDelete)
            ins == SelectSeq(reqs, IsInsert)
        IN /\ reqs = dels \o ins
           /\ \A i, j \in 1..Len(reqs) :
                (IsInsert(reqs[i]) /\ IsDelete(reqs[j])) => j < i
           /\ \A i, j \in 1..Len(dels) :
                i < j => dels[i].ObjectId[2] < dels[j].ObjectId[2]
           /\ Len(ins) <= 2
           /\ Len(ins) = 2 =>
                /\ ins[1] = SlideInsertText(slideCall.titleObjectId, slideCall.title)
                /\ ins[2] = SlideInsertText(slideCall.contentObjectId,
                                            slideCall.content)

C13_Witness ==
    /\ SlideBuilt
    /\ Len(SelectSeq(slideCall.requests, IsDelete)) >= 2
    /\ Len(SelectSeq(slideCall.requests, IsInsert)) = 2
    /\ Len(slideCall.submitted) = 1

\* C14: a delete-all-text request is emitted for exactly the page elements of
\* the target slide that own a non-empty text body, one per element, and
\* none for an element without a text body or with an empty one.
C14_ClearsExactlyNonEmptyText ==
    SlideBuilt =>
        LET dels == SelectSeq(slideCall.requests, IsDelete)
            els == SelectSeq(TargetElements, HasNonEmptyText)
        IN /\ Len(dels) = Len(els)
           /\ \A i \in 1..Len(dels) : dels[i] = DeleteText(els[i].ObjectId)

\* C15: an invocation issues at most one remote read and then at most one
\* remote batch write, with no retry: a failed read ends it with an error
\* and no write, a failed batch write ends it with an error and is not
\* submitted again.
C15_OneReadOneWriteNoRetry ==
    /\ \A p \in DocProcs :
         LET c == docCall[p]
         IN /\ c.reads <= 1 /\ c.writes <= 1 /\ Len(c.submitted) = c.writes
            /\ c.writes = 1 => c.reads = 1
            /\ c.err = "failed to get document" => c.pc = "done" /\ c.writes = 0
            /\ c.err \in {"failed to update document: unavailable",
                          "failed to update document: invalid requests"} =>
                 c.pc = "done" /\ c.writes = 1
    /\ LET c == slideCall
       IN /\ c.reads <= 1 /\ c.writes <= 1 /\ Len(c.submitted) = c.writes
          /\ c.writes = 1 => c.reads = 1
          /\ c.err = "failed to get presentation" => c.pc = "done" /\ c.writes = 0
          /\ c.err = "failed to update presentation" =>
               c.pc = "done" /\ c.writes = 1
    /\ version <= Cardinality({p \in DocProcs : docCall[p].writes = 1})
    /\ Len(presLog) <= slideCall.writes

C15_Witness ==
    \/ /\ docCall[1].pc = "done"
       /\ docCall[1].err = "failed to update document: unavailable"
       /\ docCall[2].pc = "done"
       /\ docCall[2].err = "failed to get document"
    \/ /\ slideCall.pc = "done"
       /\ slideCall.err = "failed to update presentation"

\* C16: with a valid slide index and an empty request list no batch is
\* submitted to the remote presentation and the operation returns success.
C16_EmptyListNoBatch ==
    (SlideBuilt /\ slideCall.requests = <<>>) =>
        /\ slideCall.pc = "done"
        /\ slideCall.err = ""
        /\ slideCall.writes = 0
        /\ slideCall.submitted = <<>>
        /\ presLog = <<>>
        /\ ~SlideHandlerResult(slideCall).isError

C16_Witness ==
    /\ SlideBuilt
    /\ slideCall.requests = <<>>
    /\ slideCall.pc = "done"
    /\ \E j \in 1..Len(TargetElements) : TargetElements[j].Shape
    /\ \E j \in 1..Len(TargetElements) : ~TargetElements[j].Shape

\* q ran after p had finished, and each of the two batches was applied to
\* the document its invocation had read, with no failure of the transport
RanInARow(p, q) ==
    /\ p # q
    /\ p \in docCall[q].sawDone
    /\ docCall[q].pc = "done"
    /\ AppliedToRead(p) /\ AppliedToRead(q)
    /\ docCall[p].err # "failed to update document: unavailable"
    /\ docCall[q].err # "failed to update document: unavailable"
    /\ docCall[p].content = docCall[q].content

\* C17: running the replacement with the same text twice in a row, with no
\* other edit in between, leaves the document as the first run left it, and
\* the second run's batch is accepted, for every starting document.
C17_TwiceInARowSameState ==
    \A p, q \in DocProcs :
        RanInARow(p, q) =>
            /\ docCall[q].err = ""
            /\ docCall[q].after = docCall[p].after

\* the same for every starting document that has its trailing newline
C17_TwiceInARowWithTrailingNewline ==
    \A p, q \in DocProcs :
        (RanInARow(p, q) /\ docCall[p].doc # <<>>) =>
            /\ docCall[p].err = "" /\ docCall[q].err = ""
            /\ docCall[q].after = docCall[p].after
            /\ docCall[q].after = body

====
